---- MODULE Spec2Model ----
(***************************************************************************)
(* Model of dataset/process_data.py (npz_check, DownloadThread,            *)
(* download_from_url, make_npz, csv2npz) and src/metrics.py (MSE).         *)
(*                                                                         *)
(* Specifications:                                                         *)
(*   Spec      one invocation of npz_check: presence gate, login, one      *)
(*             DownloadThread per required file, join, make_npz            *)
(*   FairSpec  Spec with the fairness of thread scheduling                 *)
(*   SpecDL    download_from_url re-invoked on one file after              *)
(*             interruptions                                               *)
(*   SpecCsv   csv2npz applied to bounded tables and label lists           *)
(*   SpecMSE   MSE applied to bounded arrays                               *)
(***************************************************************************)
EXTENDS Integers, Sequences, FiniteSets, TLC

(***************************************************************************)
(* Bounds                                                                  *)
(***************************************************************************)
\* largest remote file size (bytes) the portal serves
MaxSize == 3
\* largest chunk iter_content yields (chunk_size=1024 in the source, scaled)
ChunkSize == 2
\* number of invocations of download_from_url in SpecDL
MaxInvocations == 3
\* K of csv2npz (TIME_SERIES_LENGTH = 672 in the source, scaled)
TIME_SERIES_LENGTH == 2
\* most rows of a csv table
MaxRows == 2
\* number of variable names a label list is drawn from
MaxVars == 2
\* most elements of an array given to MSE
MaxCells == 3

(***************************************************************************)
(* The three remote file descriptors of npz_check (lines 115-126)          *)
(***************************************************************************)
x_train == "x_train_LsAZgHU.csv"
y_train == "y_train_EFo1WyE.csv"
x_test == "x_test_QK7dVsy.csv"
Files == {x_train, y_train, x_test}

VARIABLES
  \* ---- file system and environment
  isDir,            \* datasets_path.is_dir()
  isFile,           \* [Files -> BOOLEAN]: the csv is a file of datasets_path
  getsize,          \* [Files -> Nat]: os.path.getsize of the csv (0 when absent)
  npzIsFile,        \* dataset_path.is_file(): the archive exists
  credentials,      \* both CHALLENGE_USER_NAME and CHALLENGE_USER_PASSWORD are set
  size,             \* [Files -> Nat]: Content-Length the portal reports
  entry,            \* what npz_check found when it was called (never changes)
  \* ---- npz_check (the coordinator)
  pc,               \* position of the coordinator
  err,              \* exception that ended npz_check ("none" while running)
  make_npz_flag,
  files_to_download,
  loginGets,        \* GET requests sent to login_url
  loginPosts,       \* POST requests sent to login_url
  loginOk,          \* response.ok of the POST (FALSE until it returns)
  started,          \* threads started so far (index into files_to_download)
  joined,           \* threads joined so far
  makeNpzCalls,     \* calls of make_npz
  \* ---- DownloadThread / download_from_url, one per file
  tpc,              \* [Files -> position of the thread]
  first_byte,       \* [Files -> Nat]
  remaining,        \* [Files -> Nat]: bytes of the ranged response not yet read
  rangeStart,       \* [Files -> Nat]: start byte of the Range header sent
  fileGets,         \* [Files -> Nat]: un-ranged GETs sent for the file
  rangeGets,        \* [Files -> Nat]: ranged GETs sent for the file
  entrySize,        \* [Files -> Nat]: getsize when the invocation began
  entryIsFile,      \* [Files -> BOOLEAN]: is_file when the invocation began
  ranged,           \* [Files -> BOOLEAN]: this invocation sent the ranged GET
  written,          \* [Files -> Nat]: bytes this invocation wrote
  ret,              \* [Files -> Nat]: value download_from_url returned
  invocations,      \* invocations of download_from_url begun (SpecDL)
  \* ---- csv2npz
  x,                \* the feature table, pd.read_csv(dataset_x_path)
  y,                \* the target table, pd.read_csv(dataset_y_path)
  labels,           \* labels.json: [R, X, Z -> list of names]
  saved,            \* what np.savez wrote: [R, X, Z -> array], or None
  csvpc,            \* "call", "saved" or the exception raised
  \* ---- MSE
  y_true,
  y_pred,
  occupation,
  idx_label,
  output,           \* the value MSE returned
  msepc             \* "call" or "returned"

fsVars == <<isDir, isFile, getsize, npzIsFile, credentials, size, entry>>
coVars == <<pc, err, make_npz_flag, files_to_download, loginGets, loginPosts,
            loginOk, started, joined, makeNpzCalls>>
dlVars == <<tpc, first_byte, remaining, rangeStart, fileGets, rangeGets,
            entrySize, entryIsFile, ranged, written, ret, invocations>>
csvVars == <<x, y, labels, saved, csvpc>>
mseVars == <<y_true, y_pred, occupation, idx_label, output, msepc>>
vars == <<fsVars, coVars, dlVars, csvVars, mseVars>>

None == "None"

Min(a, b) == IF a < b THEN a ELSE b
Range(s) == {s[i] : i \in DOMAIN s}
Terminated == {"finished", "failed"}

(***************************************************************************)
(* Presence Gate: npz_check lines 127-149                                  *)
(***************************************************************************)
\* faulty variant: the two tests of lines 136 and 139 chained with `elif`
ChainedDirFiles(file, npz) ==
  IF ~file[x_test] THEN <<x_test>>
  ELSE IF ~npz
    THEN (IF ~file[x_train] THEN <<x_train>> ELSE <<>>)
         \o (IF ~file[y_train] THEN <<y_train>> ELSE <<>>)
  ELSE <<>>

\* the list built when the datasets folder exists (lines 136-149)
ExistingDirFiles(file, npz) ==
  (IF ~file[x_test] THEN <<x_test>> ELSE <<>>)
  \o (IF ~npz
        THEN (IF ~file[x_train] THEN <<x_train>> ELSE <<>>)
             \o (IF ~file[y_train] THEN <<y_train>> ELSE <<>>)
        ELSE <<>>)

\* make_npz_flag when the datasets folder exists (lines 139-141)
ExistingDirFlag(file, npz) == ~npz

\* faulty variant: the test file left out of the list of line 132
TrainFilesOnly == <<x_train, y_train>>

\* the list built when there is no datasets folder (line 132)
NoDirFiles == <<x_train, y_train, x_test>>

FilesToDownload(dir, file, npz) ==
  IF ~dir THEN NoDirFiles ELSE ExistingDirFiles(file, npz)

MakeNpzFlag(dir, file, npz) ==
  IF ~dir THEN TRUE ELSE ExistingDirFlag(file, npz)

\* faulty variant: the login block of lines 151-192 not guarded by line 150
AlwaysLogin(files) == TRUE

\* `if files_to_download:` (line 150)
LoginRequired(files) == files # <<>>

\* faulty variant: the test of line 167 never true
CredentialsNotChecked(c) == FALSE

\* `if None in [challenge_user_name, challenge_user_password]` (line 167)
CredentialsMissing(c) == ~c

\* faulty variant: the join loop of lines 191-192 left out
JoinSkipped(state) == TRUE

\* thread.join() returns once the thread has terminated (line 192)
JoinReturns(state) == state \in Terminated

\* faulty variant: an exception of a thread ends the coordinator too
ThreadExceptionRaised(coordinator) == "error"

\* an exception that leaves DownloadThread.run ends that thread only: the
\* coordinator's position is what it was (lines 103-107)
OnThreadException(coordinator) == coordinator

(***************************************************************************)
(* download_from_url: lines 51-89                                          *)
(***************************************************************************)
\* lines 66-69
FirstByte(exists, bytes) == IF exists THEN bytes ELSE 0

\* faulty variant: `>` for `>=` in line 70
CompleteStrict(first, total) == first > total

\* `if first_byte >= download_details["size"]` (line 70)
Complete(first, total) == first >= total

\* faulty variant: the Range header of line 72 always starts at byte 0
RangeFromZero(first) == 0

\* first byte of the Range header (line 72)
RangeHeaderStart(first) == first

\* open(dst, "ab") (line 83): size of the file once opened for append
OpenAppend(exists, bytes) == IF exists THEN bytes ELSE 0

\* body of a response to `Range: bytes=first-total`: the bytes first..total-1
\* (the last position is clamped to the end of the representation)
RangedBody(first, total) == IF first < total THEN total - first ELSE 0

(***************************************************************************)
(* Initial states                                                          *)
(***************************************************************************)
CsvIdle ==
  /\ x = None /\ y = None /\ labels = None /\ saved = None /\ csvpc = "none"

MseIdle ==
  /\ y_true = None /\ y_pred = None /\ occupation = None /\ idx_label = None
  /\ output = None /\ msepc = "none"

DLIdle ==
  /\ tpc = [f \in Files |-> "none"]
  /\ first_byte = [f \in Files |-> 0]
  /\ remaining = [f \in Files |-> 0]
  /\ rangeStart = [f \in Files |-> 0]
  /\ fileGets = [f \in Files |-> 0]
  /\ rangeGets = [f \in Files |-> 0]
  /\ entrySize = [f \in Files |-> 0]
  /\ entryIsFile = [f \in Files |-> FALSE]
  /\ ranged = [f \in Files |-> FALSE]
  /\ written = [f \in Files |-> 0]
  /\ ret = [f \in Files |-> 0]
  /\ invocations = 0

COIdle(p) ==
  /\ pc = p
  /\ err = "none"
  /\ make_npz_flag = FALSE
  /\ files_to_download = <<>>
  /\ loginGets = 0
  /\ loginPosts = 0
  /\ loginOk = FALSE
  /\ started = 0
  /\ joined = 0
  /\ makeNpzCalls = 0

\* npz_check is called on a datasets folder that is missing, or holds any
\* subset of the three csv files (each whole or truncated) and possibly the
\* archive.  The portal names each file in content-disposition as line
\* 117, 121 or 125 does, so a thread writes the file the gate looked for.
InitPipeline ==
  /\ isDir \in BOOLEAN
  /\ \E s \in 1..MaxSize : size = [f \in Files |-> s]
  /\ isFile \in [Files -> BOOLEAN]
  /\ isDir = FALSE => isFile = [f \in Files |-> FALSE]
  /\ getsize \in [Files -> 0..MaxSize]
  /\ \A f \in Files : getsize[f] <= size[f] /\ (~isFile[f] => getsize[f] = 0)
  /\ npzIsFile \in BOOLEAN
  /\ isDir = FALSE => npzIsFile = FALSE
  /\ credentials \in BOOLEAN
  /\ entry = [dir |-> isDir, file |-> isFile, npz |-> npzIsFile]
  /\ COIdle("gate")
  /\ DLIdle
  /\ CsvIdle
  /\ MseIdle

(***************************************************************************)
(* npz_check                                                               *)
(***************************************************************************)
\* lines 127-150: the gate, os.makedirs, and the test of files_to_download
PresenceGate ==
  /\ UNCHANGED <<csvVars, mseVars>>
  /\ pc = "gate"
  /\ files_to_download' = FilesToDownload(isDir, isFile, npzIsFile)
  /\ make_npz_flag' = MakeNpzFlag(isDir, isFile, npzIsFile)
  /\ isDir' = TRUE
  /\ pc' = IF LoginRequired(files_to_download') THEN "login_get" ELSE "make_npz"
  /\ UNCHANGED <<isFile, getsize, npzIsFile, credentials, size, entry>>
  /\ UNCHANGED <<err, loginGets, loginPosts, loginOk, started, joined,
                 makeNpzCalls>>
  /\ UNCHANGED dlVars

\* lines 152-162: GET login_url, assert response.ok, take the first token
LoginGet ==
  /\ UNCHANGED <<csvVars, mseVars>>
  /\ pc = "login_get"
  /\ loginGets' = loginGets + 1
  /\ \E ok \in BOOLEAN, token \in BOOLEAN :
       IF ~ok THEN pc' = "error" /\ err' = "AssertionError"
       ELSE IF ~token THEN pc' = "error" /\ err' = "IndexError"
       ELSE pc' = "credentials" /\ err' = err
  /\ UNCHANGED fsVars
  /\ UNCHANGED <<make_npz_flag, files_to_download, loginPosts, loginOk, started, joined,
                 makeNpzCalls>>
  /\ UNCHANGED dlVars

\* lines 163-170: read the two variables, raise ValueError when one is None
LoadCredentials ==
  /\ UNCHANGED <<csvVars, mseVars>>
  /\ pc = "credentials"
  /\ IF CredentialsMissing(credentials)
       THEN pc' = "error" /\ err' = "ValueError"
       ELSE pc' = "login_post" /\ err' = err
  /\ UNCHANGED fsVars
  /\ UNCHANGED <<make_npz_flag, files_to_download, loginGets, loginPosts,
                 loginOk, started, joined, makeNpzCalls>>
  /\ UNCHANGED dlVars

\* lines 171-184: POST the credentials, assert response.ok, build the threads
LoginPost ==
  /\ UNCHANGED <<csvVars, mseVars>>
  /\ pc = "login_post"
  /\ loginPosts' = loginPosts + 1
  /\ \E ok \in BOOLEAN :
       /\ loginOk' = ok
       /\ IF ~ok THEN pc' = "error" /\ err' = "AssertionError"
          ELSE pc' = "start" /\ err' = err
  /\ UNCHANGED fsVars
  /\ UNCHANGED <<make_npz_flag, files_to_download, loginGets, started, joined,
                 makeNpzCalls>>
  /\ UNCHANGED dlVars

\* lines 187-188: thread.start() of the next thread of the list
StartThread ==
  /\ UNCHANGED <<csvVars, mseVars>>
  /\ pc = "start"
  /\ started < Len(files_to_download)
  /\ LET f == files_to_download[started + 1] IN
       /\ tpc' = [tpc EXCEPT ![f] = "get"]
       /\ entrySize' = [entrySize EXCEPT ![f] = getsize[f]]
       /\ entryIsFile' = [entryIsFile EXCEPT ![f] = isFile[f]]
       /\ ranged' = [ranged EXCEPT ![f] = FALSE]
       /\ written' = [written EXCEPT ![f] = 0]
  /\ invocations' = invocations + 1
  /\ started' = started + 1
  /\ pc' = IF started' = Len(files_to_download) THEN "join" ELSE "start"
  /\ UNCHANGED fsVars
  /\ UNCHANGED <<err, make_npz_flag, files_to_download, loginGets, loginPosts,
                 loginOk,
                 joined, makeNpzCalls>>
  /\ UNCHANGED <<first_byte, remaining, rangeStart, fileGets, rangeGets, ret>>

\* lines 191-192: thread.join() of the next thread of the list
JoinThread ==
  /\ UNCHANGED <<csvVars, mseVars>>
  /\ pc = "join"
  /\ joined < Len(files_to_download)
  /\ JoinReturns(tpc[files_to_download[joined + 1]])
  /\ joined' = joined + 1
  /\ pc' = IF joined' = Len(files_to_download) THEN "make_npz" ELSE "join"
  /\ UNCHANGED fsVars
  /\ UNCHANGED <<err, make_npz_flag, files_to_download, loginGets, loginPosts,
                 loginOk,
                 started, makeNpzCalls>>
  /\ UNCHANGED dlVars

\* lines 194-197 and make_npz (201-214): csv2npz reads the two train files
\* and writes the archive; a missing file raises, a truncated one may or may
\* not parse
MakeNpz ==
  /\ UNCHANGED <<csvVars, mseVars>>
  /\ pc = "make_npz"
  /\ make_npz_flag
  /\ makeNpzCalls' = makeNpzCalls + 1
  /\ \E parsed \in BOOLEAN :
       LET whole == \A f \in {x_train, y_train} :
                      isFile[f] /\ getsize[f] >= size[f]
           there == isFile[x_train] /\ isFile[y_train]
       IN IF ~there
            THEN pc' = "error" /\ err' = "FileNotFoundError"
                 /\ npzIsFile' = npzIsFile
          ELSE IF whole \/ parsed
            THEN pc' = "done" /\ err' = err /\ npzIsFile' = TRUE
          ELSE pc' = "error" /\ err' = "ParserError" /\ npzIsFile' = npzIsFile
  /\ UNCHANGED <<isDir, isFile, getsize, credentials, size, entry>>
  /\ UNCHANGED <<make_npz_flag, files_to_download, loginGets, loginPosts,
                 loginOk, started, joined>>
  /\ UNCHANGED dlVars

\* lines 194, 198: make_npz_flag is False, return dataset_path
Return ==
  /\ UNCHANGED <<csvVars, mseVars>>
  /\ pc = "make_npz"
  /\ ~make_npz_flag
  /\ pc' = "done"
  /\ UNCHANGED fsVars
  /\ UNCHANGED <<err, make_npz_flag, files_to_download, loginGets, loginPosts,
                 loginOk,
                 started, joined, makeNpzCalls>>
  /\ UNCHANGED dlVars

(***************************************************************************)
(* DownloadThread.run = download_from_url for the thread's file            *)
(***************************************************************************)
\* an assertion or exception leaves run(): the thread ends, nothing else
ThreadFails(f) ==
  /\ tpc' = [tpc EXCEPT ![f] = "failed"]
  /\ pc' = OnThreadException(pc)
  /\ err' = IF pc' = pc THEN err ELSE "ThreadError"

\* lines 56-71: the un-ranged GET, the headers, the resume offset, the
\* early return
FirstGet(f) ==
  /\ UNCHANGED <<csvVars, mseVars>>
  /\ tpc[f] = "get"
  /\ fileGets' = [fileGets EXCEPT ![f] = @ + 1]
  /\ \E ok \in BOOLEAN :
       IF ~ok
         THEN /\ ThreadFails(f)
              /\ UNCHANGED <<first_byte, ret>>
         ELSE /\ first_byte' = [first_byte EXCEPT
                                  ![f] = FirstByte(isFile[f], getsize[f])]
              /\ IF Complete(first_byte'[f], size[f])
                   THEN /\ tpc' = [tpc EXCEPT ![f] = "finished"]
                        /\ ret' = [ret EXCEPT ![f] = size[f]]
                   ELSE /\ tpc' = [tpc EXCEPT ![f] = "range"]
                        /\ ret' = ret
              /\ UNCHANGED <<pc, err>>
  /\ UNCHANGED fsVars
  /\ UNCHANGED <<make_npz_flag, files_to_download, loginGets, loginPosts,
                 loginOk, started, joined, makeNpzCalls>>
  /\ UNCHANGED <<remaining, rangeStart, rangeGets, entrySize, entryIsFile,
                 ranged, written, invocations>>

\* lines 72-83: the ranged GET, assert response.ok, open(dst, "ab")
RangeGet(f) ==
  /\ UNCHANGED <<csvVars, mseVars>>
  /\ tpc[f] = "range"
  /\ rangeGets' = [rangeGets EXCEPT ![f] = @ + 1]
  /\ ranged' = [ranged EXCEPT ![f] = TRUE]
  /\ rangeStart' = [rangeStart EXCEPT ![f] = RangeHeaderStart(first_byte[f])]
  /\ \E ok \in BOOLEAN :
       IF ~ok \/ rangeStart'[f] >= size[f]
         THEN /\ ThreadFails(f)
              /\ UNCHANGED <<isFile, getsize, remaining>>
         ELSE /\ tpc' = [tpc EXCEPT ![f] = "stream"]
              /\ remaining' = [remaining EXCEPT
                                 ![f] = RangedBody(rangeStart'[f], size[f])]
              /\ getsize' = [getsize EXCEPT
                               ![f] = OpenAppend(isFile[f], getsize[f])]
              /\ isFile' = [isFile EXCEPT ![f] = TRUE]
              /\ UNCHANGED <<pc, err>>
  /\ UNCHANGED <<isDir, npzIsFile, credentials, size, entry>>
  /\ UNCHANGED <<make_npz_flag, files_to_download, loginGets, loginPosts,
                 loginOk, started, joined, makeNpzCalls>>
  /\ UNCHANGED <<first_byte, fileGets, entrySize, entryIsFile, written, ret,
                 invocations>>

\* lines 84-87: one chunk of at most chunk_size bytes is appended
WriteChunk(f) ==
  /\ UNCHANGED <<csvVars, mseVars>>
  /\ tpc[f] = "stream"
  /\ remaining[f] > 0
  /\ \E n \in 1..Min(ChunkSize, remaining[f]) :
       /\ getsize' = [getsize EXCEPT ![f] = @ + n]
       /\ written' = [written EXCEPT ![f] = @ + n]
       /\ remaining' = [remaining EXCEPT ![f] = @ - n]
  /\ UNCHANGED <<isDir, isFile, npzIsFile, credentials, size, entry>>
  /\ UNCHANGED coVars
  /\ UNCHANGED <<tpc, first_byte, rangeStart, fileGets, rangeGets, entrySize,
                 entryIsFile, ranged, ret, invocations>>

\* line 84: iter_content raises (the connection breaks) before the body ends
Interrupted(f) ==
  /\ UNCHANGED <<csvVars, mseVars>>
  /\ tpc[f] = "stream"
  /\ remaining[f] > 0
  /\ ThreadFails(f)
  /\ UNCHANGED fsVars
  /\ UNCHANGED <<make_npz_flag, files_to_download, loginGets, loginPosts,
                 loginOk, started, joined, makeNpzCalls>>
  /\ UNCHANGED <<first_byte, remaining, rangeStart, fileGets, rangeGets,
                 entrySize, entryIsFile, ranged, written, ret, invocations>>

\* lines 88-89: the body is exhausted, return the size
Finish(f) ==
  /\ UNCHANGED <<csvVars, mseVars>>
  /\ tpc[f] = "stream"
  /\ remaining[f] = 0
  /\ tpc' = [tpc EXCEPT ![f] = "finished"]
  /\ ret' = [ret EXCEPT ![f] = size[f]]
  /\ UNCHANGED fsVars
  /\ UNCHANGED coVars
  /\ UNCHANGED <<first_byte, remaining, rangeStart, fileGets, rangeGets,
                 entrySize, entryIsFile, ranged, written, invocations>>

Init == InitPipeline

Next ==
  \/ PresenceGate
  \/ LoginGet
  \/ LoadCredentials
  \/ LoginPost
  \/ StartThread
  \/ JoinThread
  \/ MakeNpz
  \/ Return
  \/ \E f \in Files : FirstGet(f)
  \/ \E f \in Files : RangeGet(f)
  \/ \E f \in Files : WriteChunk(f)
  \/ \E f \in Files : Interrupted(f)
  \/ \E f \in Files : Finish(f)

Spec == Init /\ [][Next]_vars

\* npz_check as one process, each DownloadThread as another
Coordinator ==
  \/ PresenceGate \/ LoginGet \/ LoadCredentials \/ LoginPost
  \/ StartThread \/ JoinThread \/ MakeNpz \/ Return

Thread(f) ==
  \/ FirstGet(f) \/ RangeGet(f) \/ WriteChunk(f) \/ Interrupted(f) \/ Finish(f)

\* The interpreter schedules every runnable thread again and again, and
\* every request sent is answered (with success or with failure)
FairSpec ==
  /\ Spec
  /\ WF_vars(Coordinator)
  /\ \A f \in Files : WF_vars(Thread(f))

(***************************************************************************)
(* SpecDL: download_from_url called again and again on one file, each call *)
(* after the previous one returned or was interrupted                      *)
(***************************************************************************)
InitDL ==
  /\ isDir = TRUE
  /\ npzIsFile = FALSE
  /\ credentials = TRUE
  /\ \E f \in Files, total \in 0..MaxSize, exists \in BOOLEAN,
        bytes \in 0..(MaxSize + 1) :
       /\ size = [g \in Files |-> total]
       /\ isFile = [g \in Files |-> g = f /\ exists]
       /\ getsize = [g \in Files |-> IF g = f /\ exists THEN bytes ELSE 0]
       /\ tpc = [g \in Files |-> IF g = f THEN "get" ELSE "none"]
       /\ entrySize = getsize
       /\ entryIsFile = isFile
  /\ entry = [dir |-> isDir, file |-> isFile, npz |-> npzIsFile]
  /\ COIdle("caller")
  /\ first_byte = [f \in Files |-> 0]
  /\ remaining = [f \in Files |-> 0]
  /\ rangeStart = [f \in Files |-> 0]
  /\ fileGets = [f \in Files |-> 0]
  /\ rangeGets = [f \in Files |-> 0]
  /\ ranged = [f \in Files |-> FALSE]
  /\ written = [f \in Files |-> 0]
  /\ ret = [f \in Files |-> 0]
  /\ invocations = 1
  /\ CsvIdle
  /\ MseIdle

\* line 51: download_from_url is called once more for the same file
Reinvoke(f) ==
  /\ UNCHANGED <<csvVars, mseVars>>
  /\ tpc[f] \in Terminated
  /\ invocations < MaxInvocations
  /\ invocations' = invocations + 1
  /\ tpc' = [tpc EXCEPT ![f] = "get"]
  /\ entrySize' = [entrySize EXCEPT ![f] = getsize[f]]
  /\ entryIsFile' = [entryIsFile EXCEPT ![f] = isFile[f]]
  /\ ranged' = [ranged EXCEPT ![f] = FALSE]
  /\ written' = [written EXCEPT ![f] = 0]
  /\ UNCHANGED fsVars
  /\ UNCHANGED coVars
  /\ UNCHANGED <<first_byte, remaining, rangeStart, fileGets, rangeGets, ret>>

NextDL ==
  \/ \E f \in Files : FirstGet(f)
  \/ \E f \in Files : RangeGet(f)
  \/ \E f \in Files : WriteChunk(f)
  \/ \E f \in Files : Interrupted(f)
  \/ \E f \in Files : Finish(f)
  \/ \E f \in Files : Reinvoke(f)

SpecDL == InitDL /\ [][NextDL]_vars

(***************************************************************************)
(* csv2npz: lines 217-250                                                  *)
(*                                                                         *)
(* A table (DataFrame) is [columns |-> list of names, values |-> list of   *)
(* rows]; an array (ndarray) is [shape |-> list of dimensions, data |->    *)
(* its elements in row-major order].                                       *)
(***************************************************************************)
PipeIdle ==
  /\ isDir = FALSE
  /\ isFile = [f \in Files |-> FALSE]
  /\ getsize = [f \in Files |-> 0]
  /\ npzIsFile = FALSE
  /\ credentials = FALSE
  /\ size = [f \in Files |-> 0]
  /\ entry = [dir |-> isDir, file |-> isFile, npz |-> npzIsFile]
  /\ COIdle("none")
  /\ DLIdle

\* f"{var_name}_{i}" (lines 240, 244)
ColName(var_name, i) == var_name \o "_" \o ToString(i)

\* faulty variant: the two loops of the comprehension exchanged,
\* [... for i in range(K) for var_name in names]
ExpandTimeMajor(names, K) ==
  [j \in 1..(Len(names) * K) |->
     ColName(names[((j - 1) % Len(names)) + 1], (j - 1) \div Len(names))]

\* [f"{var_name}_{i}" for var_name in names for i in range(K)]
Expand(names, K) ==
  [j \in 1..(Len(names) * K) |->
     ColName(names[((j - 1) \div K) + 1], (j - 1) % K)]

\* position of a column name in a table
Loc(table, name) == CHOOSE c \in DOMAIN table.columns : table.columns[c] = name

\* table[cols]: the columns named, in the order of cols
Select(table, cols) ==
  [columns |-> cols,
   values |-> [s \in DOMAIN table.values |->
                 [c \in DOMAIN cols |-> table.values[s][Loc(table, cols[c])]]]]

\* table.values: the 2-D array of the table
Values(table) ==
  LET m == Len(table.values)
      n == Len(table.columns)
  IN [shape |-> <<m, n>>,
      data |-> [k \in 1..(m * n) |->
                  table.values[((k - 1) \div n) + 1][((k - 1) % n) + 1]]]

\* array.reshape((m, -1, K)) raises ValueError: numpy cannot infer the
\* middle dimension when m * K is 0 or does not divide the number of elements
ReshapeRaises(array, m, K) ==
  IF m * K = 0 THEN TRUE ELSE Len(array.data) % (m * K) # 0

\* array.reshape((m, -1, K)) when it does not raise: the buffer is kept, the
\* middle dimension is inferred
Reshape(array, m, K) ==
  [shape |-> <<m, Len(array.data) \div (m * K), K>>, data |-> array.data]

\* the nearest float32 of an integer 0 <= v < 2^25 (24-bit significand,
\* ties to even)
Float32(v) ==
  IF v <= 2^24 THEN v
  ELSE IF v % 2 = 0 THEN v
  ELSE IF (v \div 2) % 2 = 0 THEN v - 1 ELSE v + 1

\* array.astype(np.float32)
AsFloat32(array) ==
  [array EXCEPT !.data = [k \in DOMAIN array.data |-> Float32(array.data[k])]]

\* lines 233-245: one of the two reshapes raises
Csv2NpzRaises(tx, ty, lab, K) ==
  LET m == Len(tx.values)
  IN \/ ReshapeRaises(Values(Select(ty, Expand(lab.X, K))), m, K)
     \/ ReshapeRaises(Values(Select(tx, Expand(lab.Z, K))), m, K)

\* lines 233-250: the three arrays csv2npz saves when nothing raises
Csv2Npz(tx, ty, lab, K) ==
  LET m == Len(tx.values)
  IN [R |-> AsFloat32(Values(Select(tx, lab.R))),
      X |-> AsFloat32(Reshape(Values(Select(ty, Expand(lab.X, K))), m, K)),
      Z |-> AsFloat32(Reshape(Values(Select(tx, Expand(lab.Z, K))), m, K))]

\* ---- the inputs
Lists(pool) ==
  {l \in UNION {[1..k -> pool] : k \in 0..Cardinality(pool)} :
     \A i, j \in DOMAIN l : i # j => l[i] # l[j]}
Names(prefix) == {prefix \o ToString(i) : i \in 1..MaxVars}
NameList(prefix) == [i \in 1..MaxVars |-> prefix \o ToString(i)]
Reverse(l) == [i \in 1..Len(l) |-> l[Len(l) + 1 - i]]

\* a table of m rows whose cells all differ: cell (s, c) holds
\* base + 2 * (its row-major position)
MakeTable(cols, m, base) ==
  [columns |-> cols,
   values |-> [s \in 1..m |->
                 [c \in 1..Len(cols) |-> base + 2 * ((s - 1) * Len(cols) + c)]]]

InitCsv ==
  /\ PipeIdle
  /\ MseIdle
  /\ \E m \in 0..MaxRows, reversed \in BOOLEAN, offset \in {0, 2^24} :
       LET xcols == NameList("r") \o Expand(NameList("z"), TIME_SERIES_LENGTH)
           ycols == Expand(NameList("x"), TIME_SERIES_LENGTH)
       IN /\ x = MakeTable(IF reversed THEN Reverse(xcols) ELSE xcols, m, offset)
          /\ y = MakeTable(IF reversed THEN Reverse(ycols) ELSE ycols, m,
                           offset + 1)
  /\ labels \in [R : Lists(Names("r")), X : Lists(Names("x")),
                 Z : Lists(Names("z"))]
  /\ saved = None
  /\ csvpc = "call"

\* csv2npz is called: np.savez writes R, X and Z, or an exception is raised
\* and nothing is written
Csv2npzCall ==
  /\ csvpc = "call"
  /\ IF Csv2NpzRaises(x, y, labels, TIME_SERIES_LENGTH)
       THEN csvpc' = "ValueError" /\ saved' = saved
       ELSE /\ csvpc' = "saved"
            /\ saved' = Csv2Npz(x, y, labels, TIME_SERIES_LENGTH)
  /\ UNCHANGED <<x, y, labels>>
  /\ UNCHANGED <<fsVars, coVars, dlVars, mseVars>>

NextCsv == Csv2npzCall

SpecCsv == InitCsv /\ [][NextCsv]_vars

(***************************************************************************)
(* MSE: src/metrics.py lines 3-19                                          *)
(*                                                                         *)
(* y_true and y_pred are 2-D arrays [shape |-> <<m, n>>, data |-> row-major *)
(* elements]; occupation is None or a list of m weights; idx_label is None *)
(* or a list of column indices counted from 0; an optional argument is     *)
(* [given |-> FALSE] for None and [given |-> TRUE, value |-> v] otherwise. *)
(* The value returned is [nan |-> FALSE, num |-> a, den |-> b] for the     *)
(* quotient a / b, b > 0, and has nan |-> TRUE for 0/0.                    *)
(***************************************************************************)
NoneArg == [given |-> FALSE, value |-> <<>>]
Given(v) == [given |-> TRUE, value |-> v]

RECURSIVE SumSeq(_)
\* torch.sum over the elements of a buffer
SumSeq(l) == IF l = <<>> THEN 0 ELSE l[1] + SumSeq(Tail(l))

\* torch.arange(n)
Arange(n) == [i \in 1..n |-> i - 1]

\* `idx_label or torch.arange(y_true.shape[-1])` (line 5): None and the empty
\* list are false
IdxLabel(idx, n) ==
  IF ~idx.given THEN Arange(n)
  ELSE IF idx.value = <<>> THEN Arange(n)
  ELSE idx.value

\* array[..., idx]: the columns listed, in the order listed
Columns(array, idx) ==
  LET m == array.shape[1]
      n == array.shape[2]
      k == Len(idx)
  IN [shape |-> <<m, k>>,
      data |-> [p \in 1..(m * k) |->
                  array.data[((p - 1) \div k) * n + idx[((p - 1) % k) + 1] + 1]]]

\* torch.pow(a - b, 2) (line 8)
SquaredDifference(a, b) ==
  [shape |-> a.shape,
   data |-> [p \in DOMAIN a.data |-> (a.data[p] - b.data[p]) * (a.data[p] - b.data[p])]]

\* diff * occupation.unsqueeze(-1) (lines 10-15): row s is multiplied by
\* occupation[s]
Masked(diff, occ) ==
  IF ~occ.given THEN diff
  ELSE [shape |-> diff.shape,
        data |-> [p \in DOMAIN diff.data |->
                    diff.data[p] * occ.value[((p - 1) \div diff.shape[2]) + 1]]]

\* faulty variant: the sum divided by the number of elements selected
SelectedCount(shape, k) == shape[1] * k

\* torch.prod(torch.Tensor([*y_true.shape])) (line 18); k is the number of
\* columns selected
ElementCount(shape, k) == shape[1] * shape[2]

\* a / b of two tensors (line 18)
Quotient(a, b) ==
  IF b = 0 THEN [nan |-> TRUE, num |-> a, den |-> b]
  ELSE [nan |-> FALSE, num |-> a, den |-> b]

MSE(yt, yp, occ, idx) ==
  LET sel == IdxLabel(idx, yt.shape[2])
      diff == SquaredDifference(Columns(yt, sel), Columns(yp, sel))
  IN Quotient(SumSeq(Masked(diff, occ).data), ElementCount(yt.shape, Len(sel)))

\* ---- the inputs
Elements == {-1, 2}
Weights == {0, 1}
Shapes == {sh \in (0..MaxCells) \X (0..MaxCells) : sh[1] * sh[2] <= MaxCells}
Arrays(sh) == {[shape |-> sh, data |-> d] : d \in [1..(sh[1] * sh[2]) -> Elements]}
IndexLists(n) == [1..1 -> 0..(n - 1)] \cup [1..2 -> 0..(n - 1)]

InitMSE ==
  /\ PipeIdle
  /\ CsvIdle
  /\ \E sh \in Shapes :
       /\ y_true \in Arrays(sh)
       /\ y_pred \in Arrays(sh)
       /\ occupation \in {NoneArg} \cup {Given(w) : w \in [1..sh[1] -> Weights]}
       /\ idx_label \in {NoneArg} \cup {Given(l) : l \in {<<>>} \cup IndexLists(sh[2])}
  /\ output = None
  /\ msepc = "call"

\* MSE is called and returns output.item()
MSECall ==
  /\ msepc = "call"
  /\ output' = MSE(y_true, y_pred, occupation, idx_label)
  /\ msepc' = "returned"
  /\ UNCHANGED <<y_true, y_pred, occupation, idx_label>>
  /\ UNCHANGED <<fsVars, coVars, dlVars, csvVars>>

NextMSE == MSECall

SpecMSE == InitMSE /\ [][NextMSE]_vars

(***************************************************************************)
(* Properties of npz_check (Spec, FairSpec)                                *)
(***************************************************************************)
Required == Range(files_to_download)
NoThread == \A f \in Files : tpc[f] = "none"
NoFileRequest == \A f \in Files : fileGets[f] = 0 /\ rangeGets[f] = 0
EntryEmpty == (\A f \in Files : ~entry.file[f]) /\ ~entry.npz
EntryFull == entry.dir /\ (\A f \in Files : entry.file[f]) /\ entry.npz

\* C1: once the gate has run: called on a missing or an empty folder, the
\* files to download are exactly x_train, y_train and x_test and make_npz is
\* required; called on a folder that holds the three files and the archive,
\* nothing is to download, make_npz is not required, and no login request,
\* no thread and no call of make_npz ever happens.
GateExtremes ==
  pc # "gate" =>
    /\ (~entry.dir \/ EntryEmpty) =>
         /\ Required = Files
         /\ Len(files_to_download) = 3
         /\ make_npz_flag
    /\ EntryFull =>
         /\ files_to_download = <<>>
         /\ ~make_npz_flag
         /\ loginGets = 0 /\ loginPosts = 0
         /\ NoThread /\ NoFileRequest
         /\ makeNpzCalls = 0

\* an existing, empty folder: all three threads started
GateExtremesReached ==
  /\ entry.dir /\ EntryEmpty
  /\ pc = "join"
  /\ Len(files_to_download) = 3

\* C2: the login page is requested at most once and the credentials are
\* posted at most once, the POST after the GET; a thread exists only after
\* both were sent once and the POST was answered with success; with nothing
\* to download neither request is sent; an invocation that had files to
\* download and returned sent each exactly once.
LoginOnce ==
  /\ loginGets <= 1 /\ loginPosts <= 1 /\ loginPosts <= loginGets
  /\ ~NoThread => loginGets = 1 /\ loginPosts = 1 /\ loginOk
  /\ (pc # "gate" /\ files_to_download = <<>>) => loginGets = 0 /\ loginPosts = 0
  /\ (pc = "done" /\ files_to_download # <<>>) => loginGets = 1 /\ loginPosts = 1

LoginOnceReached ==
  /\ pc = "done"
  /\ Len(files_to_download) >= 2
  /\ \A f \in Required : tpc[f] = "finished"
  /\ loginGets = 1 /\ loginPosts = 1

\* C3: make_npz is called (and npz_check moves past the join loop) only when
\* every thread of the list has been started and has terminated, finished or
\* failed.
AssembleAfterJoin ==
  (makeNpzCalls > 0 \/ pc \in {"make_npz", "done"}) =>
    /\ started = Len(files_to_download)
    /\ joined = Len(files_to_download)
    /\ \A f \in Required : tpc[f] \in Terminated
    /\ \A f \in Files \ Required : tpc[f] = "none"

\* make_npz called after three threads, one of which failed
AssembleAfterJoinReached ==
  /\ makeNpzCalls = 1
  /\ Len(files_to_download) = 3
  /\ tpc[x_train] = "finished" /\ tpc[y_train] = "finished"
  /\ tpc[x_test] = "failed"

\* the threads end in any order: the one started last has ended while the
\* one started first still runs
AnyOrderReached ==
  /\ Len(files_to_download) = 3
  /\ tpc[files_to_download[3]] = "finished"
  /\ tpc[files_to_download[1]] = "get"

\* C4 as stated: the ValueError for missing credentials is raised before any
\* request at all, the GET of the login page included.
NoRequestBeforeConfigurationError ==
  err = "ValueError" =>
    loginGets = 0 /\ loginPosts = 0 /\ NoFileRequest

\* C4 as amended: the ValueError is raised only for missing credentials and a
\* non-empty list, after exactly one GET of the login page and before the
\* POST, any file request and any thread; and with the credentials missing
\* no POST, no file request and no thread ever happens, and an invocation
\* with files to download never returns.
ConfigurationErrorAfterLoginPage ==
  /\ err = "ValueError" =>
       /\ ~credentials
       /\ files_to_download # <<>>
       /\ loginGets = 1 /\ loginPosts = 0
       /\ NoFileRequest /\ NoThread
       /\ pc = "error"
  /\ ~credentials =>
       /\ loginPosts = 0
       /\ NoFileRequest /\ NoThread
       /\ files_to_download # <<>> => pc # "done" /\ makeNpzCalls = 0

ConfigurationErrorReached ==
  /\ err = "ValueError"
  /\ Len(files_to_download) = 3
  /\ loginGets = 1

\* the policy C9 states for an existing folder: a chain of alternatives
ChainPolicy ==
  IF ~entry.file[x_test]
    THEN Required = {x_test} /\ ~make_npz_flag
  ELSE IF ~entry.npz
    THEN /\ make_npz_flag
         /\ Required = {f \in {x_train, y_train} : ~entry.file[f]}
  ELSE Required = {} /\ ~make_npz_flag

\* C9 as stated: for a folder that exists the gate applies a chain of
\* alternatives: x_test absent, else archive absent.
GateIsChain == (pc # "gate" /\ entry.dir) => ChainPolicy

\* C9 as amended: for a folder that exists the two tests are independent:
\* x_test is required exactly when it is absent; make_npz is required exactly
\* when the archive is absent; x_train (y_train) is required exactly when the
\* archive and the file are both absent, so never when the archive is there.
GateIsTwoTests ==
  (pc # "gate" /\ entry.dir) =>
    /\ x_test \in Required <=> ~entry.file[x_test]
    /\ make_npz_flag <=> ~entry.npz
    /\ \A f \in {x_train, y_train} :
         f \in Required <=> (~entry.npz /\ ~entry.file[f])
    /\ Len(files_to_download) = Cardinality(Required)

\* x_test and the archive both absent: both tests fire
GateIsTwoTestsReached ==
  /\ pc # "gate" /\ entry.dir
  /\ ~entry.file[x_test] /\ ~entry.npz /\ ~entry.file[x_train]
  /\ entry.file[y_train]
  /\ files_to_download = <<x_test, x_train>>
  /\ make_npz_flag

\* C10: a step that makes one thread fail changes neither the coordinator
\* nor any other thread; the file of a failed thread is not whole; the
\* coordinator never holds a thread's error; and once a thread has failed,
\* every thread of the list terminates, the join loop ends, and make_npz is
\* called if it was required.
ThreadFailureIsLocal ==
  /\ [][\A f \in Files :
          (tpc[f] # "failed" /\ tpc'[f] = "failed") =>
            /\ pc' = pc /\ err' = err
            /\ joined' = joined /\ makeNpzCalls' = makeNpzCalls
            /\ \A g \in Files \ {f} : tpc'[g] = tpc[g]]_vars
  /\ [](\A f \in Files :
          tpc[f] = "failed" => ~(isFile[f] /\ getsize[f] >= size[f]))
  /\ [](err \in {"none", "AssertionError", "IndexError", "ValueError",
                 "FileNotFoundError", "ParserError"})
  /\ (\E f \in Files : tpc[f] = "failed")
       ~> (/\ pc \in {"done", "error"}
           /\ joined = Len(files_to_download)
           /\ \A g \in Required : tpc[g] \in Terminated
           /\ make_npz_flag => makeNpzCalls = 1)

\* npz_check returned although the thread of x_test failed
ThreadFailureReached ==
  /\ pc = "done" /\ err = "none"
  /\ makeNpzCalls = 1
  /\ tpc[x_test] = "failed" /\ ~isFile[x_test]
  /\ tpc[x_train] = "finished" /\ tpc[y_train] = "finished"

(***************************************************************************)
(* Properties of download_from_url (SpecDL)                                *)
(***************************************************************************)
EntryComplete(f) == entryIsFile[f] /\ entrySize[f] >= size[f]
EntryOffset(f) == IF entryIsFile[f] THEN entrySize[f] ELSE 0

\* C5: an invocation that found the local file at least as large as the
\* remote size sends no ranged request, writes nothing, leaves the file and
\* its size as they were, and when it returns it returns the remote size.
CompleteFileUntouched ==
  \A f \in Files :
    (tpc[f] # "none" /\ EntryComplete(f)) =>
      /\ tpc[f] \in {"get", "finished", "failed"}
      /\ ~ranged[f]
      /\ written[f] = 0
      /\ isFile[f] /\ getsize[f] = entrySize[f]
      /\ tpc[f] = "finished" => ret[f] = size[f]

\* a second invocation on the file an earlier invocation completed
CompleteFileUntouchedReached ==
  \E f \in Files :
    /\ tpc[f] = "finished"
    /\ EntryComplete(f) /\ entrySize[f] = size[f]
    /\ invocations >= 2 /\ rangeGets[f] >= 1
    /\ ret[f] = size[f]

\* C6: an invocation that found the local file smaller than the remote size
\* (offset 0 when the file is absent) sends its ranged request with the start
\* byte equal to the size the file had, the file grows by exactly the bytes
\* written, and when the invocation returns it has sent the ranged request
\* and the file has the remote size; in every invocation of a sequence.
ResumeFromLocalSize ==
  \A f \in Files :
    (tpc[f] # "none" /\ EntryOffset(f) < size[f]) =>
      /\ ranged[f] =>
           /\ rangeStart[f] = EntryOffset(f)
           /\ getsize[f] = EntryOffset(f) + written[f]
      /\ tpc[f] = "stream" =>
           /\ ranged[f] /\ isFile[f]
           /\ getsize[f] + remaining[f] = size[f]
      /\ tpc[f] = "finished" =>
           /\ ranged[f]
           /\ isFile[f] /\ getsize[f] = size[f]
           /\ ret[f] = size[f]

\* the third invocation completes what two interrupted ones began
ResumeFromLocalSizeReached ==
  \E f \in Files :
    /\ tpc[f] = "finished"
    /\ invocations = 3 /\ rangeGets[f] = 3
    /\ entryIsFile[f] /\ entrySize[f] > 0 /\ entrySize[f] < size[f]
    /\ getsize[f] = size[f]

(***************************************************************************)
(* Properties of csv2npz (SpecCsv)                                         *)
(***************************************************************************)
\* array[s][v][t] and array[s][j] of a row-major array; s, v, j count from
\* 1, the time step t from 0
At3(array, s, v, t) ==
  array.data[((s - 1) * array.shape[2] + (v - 1)) * array.shape[3] + t + 1]
At2(array, s, j) == array.data[(s - 1) * array.shape[2] + j]
\* the value of a table in row s of the column of that name
Cell(table, s, name) == table.values[s][Loc(table, name)]
\* the value as the claim reads it: the table value itself (exact), or the
\* float32 nearest to it
Cast(v, exact) == IF exact THEN v ELSE Float32(v)

\* the arrays saved have the shapes and hold the table values the claim
\* names, each value read through Cast
Layout(exact) ==
  LET m == Len(x.values)
      K == TIME_SERIES_LENGTH
  IN /\ Len(y.values) = m
     /\ saved.X.shape = <<m, Len(labels.X), K>>
     /\ saved.Z.shape = <<m, Len(labels.Z), K>>
     /\ saved.R.shape = <<m, Len(labels.R)>>
     /\ Len(saved.X.data) = m * Len(labels.X) * K
     /\ Len(saved.Z.data) = m * Len(labels.Z) * K
     /\ Len(saved.R.data) = m * Len(labels.R)
     /\ \A s \in 1..m :
          /\ \A v \in DOMAIN labels.X : \A t \in 0..(K - 1) :
               At3(saved.X, s, v, t) =
                 Cast(Cell(y, s, ColName(labels.X[v], t)), exact)
          /\ \A v \in DOMAIN labels.Z : \A t \in 0..(K - 1) :
               At3(saved.Z, s, v, t) =
                 Cast(Cell(x, s, ColName(labels.Z[v], t)), exact)
          /\ \A j \in DOMAIN labels.R :
               At2(saved.R, s, j) = Cast(Cell(x, s, labels.R[j]), exact)

\* C7 as stated: for tables of any number m of rows csv2npz saves X, Z and R
\* with the shapes (m, len X, K), (m, len Z, K), (m, len R) and every element
\* is the table value of its row and column.
LayoutForAnyTable ==
  csvpc # "call" => (csvpc = "saved" /\ Layout(TRUE))

\* C7 as amended: for tables of m >= 1 rows csv2npz saves X, Z and R with
\* those shapes and every element is the float32 nearest to the table value
\* of its row and column; for tables of no rows it raises ValueError and
\* saves nothing.
LayoutForNonEmptyTable ==
  csvpc # "call" =>
    IF Len(x.values) >= 1
      THEN csvpc = "saved" /\ Layout(FALSE)
      ELSE csvpc = "ValueError"

\* two rows, both label lists of two names in the reverse of the file's
\* order, values float32 does not hold exactly
LayoutReached ==
  /\ csvpc = "saved"
  /\ Len(x.values) = 2
  /\ labels.X = <<"x2", "x1">> /\ labels.Z = <<"z2", "z1">>
  /\ labels.R = <<"r2">>
  /\ \E k \in DOMAIN saved.X.data : saved.X.data[k] > 2^24
  /\ At3(saved.X, 2, 1, 1) = Float32(Cell(y, 2, "x2_1"))
  /\ At3(saved.X, 2, 1, 1) # Cell(y, 2, "x2_1")

(***************************************************************************)
(* Properties of MSE (SpecMSE)                                             *)
(***************************************************************************)
\* number of elements of the whole ground-truth array
Count == y_true.shape[1] * y_true.shape[2]
\* the columns the call selects: those listed, all of them when idx_label is
\* None or empty
Selected ==
  IF idx_label.given /\ idx_label.value # <<>>
    THEN idx_label.value
    ELSE [i \in 1..y_true.shape[2] |-> i - 1]
\* element of row s (from 1) and column c (from 0)
Elem(array, s, c) == array.data[(s - 1) * array.shape[2] + c + 1]
Weight(s) == IF occupation.given THEN occupation.value[s] ELSE 1
\* the k-th weighted squared difference over rows and selected columns
Term(k) ==
  LET s == ((k - 1) \div Len(Selected)) + 1
      c == Selected[((k - 1) % Len(Selected)) + 1]
      d == Elem(y_true, s, c) - Elem(y_pred, s, c)
  IN Weight(s) * d * d
WeightedSum[k \in 0..(MaxCells * 2)] ==
  IF k = 0 THEN 0 ELSE WeightedSum[k - 1] + Term(k)
ExpectedSum == WeightedSum[y_true.shape[1] * Len(Selected)]

IsZero(r) == ~r.nan /\ r.num = 0
\* equality of two floats: nan equals nothing
SameFloat(a, b) == ~a.nan /\ ~b.nan /\ a.num * b.den = b.num * a.den
AllWeights(w) == occupation.given /\ \A s \in DOMAIN occupation.value :
                                       occupation.value[s] = w

MSELaws ==
  /\ y_true = y_pred => IsZero(output)
  /\ AllWeights(1) => SameFloat(output, MSE(y_true, y_pred, NoneArg, idx_label))
  /\ AllWeights(0) => IsZero(output)
  /\ ~output.nan /\ output.num = ExpectedSum /\ output.den = Count

\* C8 as stated: for every array MSE(y, y) is 0, a mask of ones gives what
\* no mask gives, a mask of zeros gives 0, and the result is the weighted
\* sum of squared differences over the selected columns divided by the
\* number of elements of the whole ground-truth array.
MSELawsForEveryArray == msepc = "returned" => MSELaws

\* C8 as amended: the same for every array of at least one element; for an
\* array of no elements MSE returns nan (0/0).
MSELawsForNonEmptyArray ==
  msepc = "returned" =>
    IF Count > 0 THEN MSELaws ELSE output.nan

\* a call with a mask of mixed weights and a column selection, whose result
\* is not 0
MSELawsReached ==
  /\ msepc = "returned"
  /\ y_true.shape = <<1, 3>>
  /\ idx_label = Given(<<2, 0>>)
  /\ occupation = Given(<<1>>)
  /\ output = [nan |-> FALSE, num |-> 18, den |-> 3]

====
